---- MODULE Spec2Model ----
(***************************************************************************)
(* Two-window automerge demo (src/src/main.rs).                            *)
(*                                                                         *)
(* Three threads of control are modelled:                                  *)
(*   - the GTK/vgtk main loop, which runs Model::update for the messages   *)
(*     of the application scope and the signal handlers of the two text    *)
(*     buffers (Doc::new), one event at a time;                            *)
(*   - the backend thread (main, lines 308-326), one select! iteration     *)
(*     per step;                                                           *)
(*   - the main thread after app.run returns (lines 329-331).              *)
(*                                                                         *)
(* The automerge frontend/backend are external crates.  They are modelled  *)
(* by their contract: a document is a map with the keys "counts" and       *)
(* "text"; every actor's initial change creates its own counter and its    *)
(* own text object under those keys, concurrent assignments to a key are   *)
(* resolved in favour of the greater actor id, an increment is added to    *)
(* the counters its author had seen, and a text object is an RGA list of   *)
(* elements with tombstones.                                               *)
(***************************************************************************)
EXTENDS Integers, Sequences, FiniteSets, TLC

\* ------------------------------------------------------------------ bounds
\* user edit events (insert, delete, increment) over both windows together
MaxEdits == 2
\* longest range one delete event removes from a buffer
MaxRange == 2
\* user edit events in the specification that is checked for liveness
MaxFairEdits == 1
\* user edit events in the specification of one window typing and deleting
MaxTypingEdits == 3

\* ------------------------------------------------------------- basic sets
Docs == {1, 2}
Actors == {1, 2}
Other(d) == 3 - d

\* what one insert_text event may carry: a single character or a pasted string
InsertStrs == {<<"a">>, <<"b", "c">>}

HeadId == <<0, 0>>
NoActor == 0

\* ---------------------------------------------------------- sequence help
Max(S) == CHOOSE x \in S : \A y \in S : y <= x

RECURSIVE Flatten(_)
Flatten(ss) == IF ss = <<>> THEN <<>> ELSE Head(ss) \o Flatten(Tail(ss))

InsertAt(s, i, x) == SubSeq(s, 1, i) \o <<x>> \o SubSeq(s, i + 1, Len(s))

SpliceAt(s, i, xs) == SubSeq(s, 1, i) \o xs \o SubSeq(s, i + 1, Len(s))

RemoveRange(s, start, end) == SubSeq(s, 1, start) \o SubSeq(s, end + 1, Len(s))

\* ------------------------------------------------------- document values
\* objs: the actors whose initial change is part of the document;
\* counts[a], text[a]: the counter / text object created by a's initial change
EmptyDoc ==
  [objs |-> {}, counts |-> [a \in Actors |-> 0], text |-> [a \in Actors |-> <<>>]]

\* the object a key resolves to: the assignment of the greatest actor wins
Winner(doc) == Max(doc.objs)

IdLess(x, y) == x[1] < y[1] \/ (x[1] = y[1] /\ x[2] < y[2])

Visible(elems) == SelectSeq(elems, LAMBDA e : ~e.del)

ElemIds(elems) == {elems[i].id : i \in 1..Len(elems)}

MaxElem(elems) == Max({0} \cup {elems[i].id[1] : i \in 1..Len(elems)})

IndexOfId(elems, id) == CHOOSE i \in 1..Len(elems) : elems[i].id = id

\* RGA: the new element goes behind its reference element and behind every
\* element there that carries a greater id
RECURSIVE SkipGreater(_, _, _)
SkipGreater(elems, i, id) ==
  IF i < Len(elems) /\ IdLess(id, elems[i + 1].id)
    THEN SkipGreater(elems, i + 1, id)
    ELSE i

RgaInsert(elems, ref, id, val) ==
  LET start == IF ref = HeadId THEN 0 ELSE IndexOfId(elems, ref)
      at == SkipGreater(elems, start, id)
  IN InsertAt(elems, at, [id |-> id, val |-> val, del |-> FALSE])

RgaDelete(elems, id) ==
  [i \in 1..Len(elems) |->
     IF elems[i].id = id THEN [elems[i] EXCEPT !.del = TRUE] ELSE elems[i]]

\* operations of a change
InitOp == [kind |-> "init", pred |-> {}, obj |-> NoActor, ref |-> HeadId, id |-> HeadId, val |-> <<>>]
IncOp(pred) == [kind |-> "inc", pred |-> pred, obj |-> NoActor, ref |-> HeadId, id |-> HeadId, val |-> <<>>]
InsOp(obj, ref, id, val) == [kind |-> "ins", pred |-> {}, obj |-> obj, ref |-> ref, id |-> id, val |-> val]
DelOp(obj, id) == [kind |-> "del", pred |-> {}, obj |-> obj, ref |-> HeadId, id |-> id, val |-> <<>>]

\* whether everything the operation refers to is part of the document
OpReady(doc, op) ==
  CASE op.kind = "init" -> TRUE
    [] op.kind = "inc" -> op.pred \subseteq doc.objs
    [] op.kind = "ins" -> /\ op.obj \in doc.objs
                          /\ (op.ref = HeadId \/ op.ref \in ElemIds(doc.text[op.obj]))
                          /\ op.id \notin ElemIds(doc.text[op.obj])
    [] op.kind = "del" -> /\ op.obj \in doc.objs
                          /\ op.id \in ElemIds(doc.text[op.obj])

ApplyOp(doc, actor, op) ==
  CASE op.kind = "init" ->
         [doc EXCEPT !.objs = @ \cup {actor}, !.counts[actor] = 0, !.text[actor] = <<>>]
    [] op.kind = "inc" ->
         [doc EXCEPT !.counts = [a \in Actors |-> IF a \in op.pred THEN @[a] + 1 ELSE @[a]]]
    [] op.kind = "ins" ->
         [doc EXCEPT !.text[op.obj] = RgaInsert(@, op.ref, op.id, op.val)]
    [] op.kind = "del" ->
         [doc EXCEPT !.text[op.obj] = RgaDelete(@, op.id)]

\* the values a reader of the document gets
CounterOf(doc) == IF doc.objs = {} THEN 0 ELSE doc.counts[Winner(doc)]

TextElems(doc) == IF doc.objs = {} THEN <<>> ELSE Visible(doc.text[Winner(doc)])

TextOf(doc) == Flatten([i \in 1..Len(TextElems(doc)) |-> TextElems(doc)[i].val])

\* ------------------------------------------------------------- frontend
\* automerge_frontend::Frontend as Doc uses it.  optimistic is the state the
\* frontend shows (state(), get_value): the reconciled state when nothing
\* is in flight, else the state the local changes were made on.
NewFrontend(actor) ==
  [actor |-> actor, seq |-> 0, inflight |-> <<>>,
   reconciled |-> EmptyDoc, optimistic |-> EmptyDoc]

Request(actor, seq, op) == [actor |-> actor, seq |-> seq, op |-> op]

\* Frontend::change with one LocalChange: the change is applied to the shown
\* state at once and its sequence number is kept as in flight
FrontendChange(fe, op) ==
  [fe EXCEPT !.seq = @ + 1,
             !.inflight = Append(@, fe.seq + 1),
             !.optimistic = ApplyOp(@, fe.actor, op)]

\* Frontend::apply_patch.  A patch of the frontend's own actor acknowledges
\* the oldest request in flight; Err (ok = FALSE) when it names another one.
FrontendApplyPatch(fe, patch) ==
  LET own == patch.actor = fe.actor
      bad == own /\ fe.inflight # <<>> /\ Head(fe.inflight) # patch.seq
      left == IF own /\ fe.inflight # <<>> THEN Tail(fe.inflight) ELSE fe.inflight
  IN [ok |-> ~bad,
      fe |-> IF bad THEN fe
             ELSE [fe EXCEPT !.inflight = left,
                             !.reconciled = patch.doc,
                             !.optimistic = IF left = <<>> THEN patch.doc ELSE @]]

\* -------------------------------------------------------------- backend
\* automerge_backend::Backend: the changes applied so far (log), how many of
\* each actor (clock), and the document they make
NewBackend == [clock |-> [a \in Actors |-> 0], doc |-> EmptyDoc, log |-> <<>>]

Patch(actor, seq, doc) == [actor |-> actor, seq |-> seq, doc |-> doc]

Integrate(b, c) ==
  [clock |-> [b.clock EXCEPT ![c.actor] = c.seq],
   doc |-> ApplyOp(b.doc, c.actor, c.op),
   log |-> Append(b.log, c)]

\* Backend::apply_local_change: Err when the request was already applied,
\* skips a sequence number or refers to something the backend has not seen;
\* the patch carries the request's actor and seq
ApplyLocalChange(b, req) ==
  LET ok == req.seq = b.clock[req.actor] + 1 /\ OpReady(b.doc, req.op)
      nb == IF ok THEN Integrate(b, req) ELSE b
  IN [ok |-> ok, backend |-> nb, patch |-> Patch(req.actor, req.seq, nb.doc)]

\* Backend::get_changes(&[]): the whole log
GetChanges(b) == b.log

\* a variant that applies every change handed over, held already or not
RECURSIVE ApplyEachNoSkip(_, _)
ApplyEachNoSkip(b, changes) ==
  IF changes = <<>> THEN b
  ELSE ApplyEachNoSkip(Integrate(b, Head(changes)), Tail(changes))

\* Backend::apply_changes: changes the backend already holds are skipped, the
\* others applied in the order given; the patch names no actor
RECURSIVE ApplyEach(_, _)
ApplyEach(b, changes) ==
  IF changes = <<>> THEN b
  ELSE LET c == Head(changes)
           nb == IF c.seq = b.clock[c.actor] + 1 /\ OpReady(b.doc, c.op)
                   THEN Integrate(b, c) ELSE b
       IN ApplyEach(nb, Tail(changes))

ApplyChanges(b, changes) ==
  LET nb == ApplyEach(b, changes)
  IN [ok |-> TRUE, backend |-> nb, patch |-> Patch(NoActor, 0, nb.doc)]

\* ------------------------------------------------------------------ Doc
\* One Doc with its side of the world, as the handlers see it:
\*   fe        Doc.frontend
\*   buf       Doc.buffer, a sequence of characters
\*   chan      the requests sent on Doc.sx and not yet received
\*   rxAlive   whether the receiving end of Doc.sx still exists
\*   insBlock, delBlock   how often each signal handler is blocked
\*   rendered  whether set_text was called
\*   ok        FALSE once an unwrap() has panicked
DocSide(fe, buf, chan, rxAlive, ib, db) ==
  [fe |-> fe, buf |-> buf, chan |-> chan, rxAlive |-> rxAlive,
   insBlock |-> ib, delBlock |-> db, rendered |-> FALSE, ok |-> TRUE]

Panic(ds) == [ds EXCEPT !.ok = FALSE]

\* a local change and sx.send(r).unwrap()
ChangeAndSend(ds, op) ==
  IF ~ds.rxAlive THEN Panic(ds)
  ELSE [ds EXCEPT !.fe = FrontendChange(@, op),
                  !.chan = Append(@, Request(ds.fe.actor, ds.fe.seq + 1, op))]

\* the connect_insert_text closure: one element, holding the whole inserted
\* string, at the index that is the buffer offset
InsertTextHandler(ds, pos, str) ==
  LET doc == ds.fe.optimistic
      elems == TextElems(doc)
      obj == Winner(doc)
      ref == IF pos = 0 THEN HeadId ELSE elems[pos].id
      id == <<MaxElem(doc.text[obj]) + 1, ds.fe.actor>>
  IN IF doc.objs = {} \/ pos > Len(elems) THEN Panic(ds)
     ELSE ChangeAndSend(ds, InsOp(obj, ref, id, str))

\* one round of the connect_delete_range closure's loop: delete index i
DeleteIndex(ds, i) ==
  LET doc == ds.fe.optimistic
      elems == TextElems(doc)
  IN IF doc.objs = {} \/ i >= Len(elems) THEN Panic(ds)
     ELSE ChangeAndSend(ds, DelOp(Winner(doc), elems[i + 1].id))

\* the connect_delete_range closure: for i in start..end
RECURSIVE DeleteRangeHandler(_, _, _)
DeleteRangeHandler(ds, i, end) ==
  IF i >= end \/ ~ds.ok THEN ds
  ELSE DeleteRangeHandler(DeleteIndex(ds, i), i + 1, end)

\* GTK emits insert-text: the connected handler unless blocked, then the
\* default handler, which changes the buffer
EmitInsert(ds, pos, str) ==
  IF str = <<>> THEN ds
  ELSE LET h == IF ds.insBlock > 0 THEN ds ELSE InsertTextHandler(ds, pos, str)
       IN IF h.ok THEN [h EXCEPT !.buf = SpliceAt(@, pos, str)] ELSE h

\* GTK emits delete-range, likewise; nothing for an empty range
EmitDelete(ds, start, end) ==
  IF start = end THEN ds
  ELSE LET h == IF ds.delBlock > 0 THEN ds ELSE DeleteRangeHandler(ds, start, end)
       IN IF h.ok THEN [h EXCEPT !.buf = RemoveRange(@, start, end)] ELSE h

\* TextBuffer::set_text: delete everything, then insert the new text
SetText(ds, text) ==
  LET cleared == EmitDelete(ds, 0, Len(ds.buf))
  IN IF cleared.ok THEN [EmitInsert(cleared, 0, text) EXCEPT !.rendered = TRUE]
     ELSE cleared

\* a variant that blocks the insert handler only
BlockInsertOnly(ds) == [ds EXCEPT !.insBlock = @ + 1]

BlockSignals(ds) == [ds EXCEPT !.insBlock = @ + 1, !.delBlock = @ + 1]

UnblockSignals(ds) == [ds EXCEPT !.insBlock = @ - 1, !.delBlock = @ - 1]

\* a variant that never takes the early return
OwnPatchNever(fe, patch) == FALSE

\* whether apply_patch takes the early return
OwnPatch(fe, patch) == patch.actor = fe.actor

\* Doc::apply_patch
ApplyPatch(ds, patch) ==
  LET r == FrontendApplyPatch(ds.fe, patch)
      merged == [ds EXCEPT !.fe = r.fe]
  IN IF ~r.ok THEN Panic(ds)
     ELSE IF OwnPatch(ds.fe, patch) THEN merged
     ELSE LET shown == SetText(BlockSignals(merged), TextOf(r.fe.optimistic))
          IN IF shown.ok THEN UnblockSignals(shown) ELSE shown

\* Doc::counter_value
CounterValue(fe) == CounterOf(fe.optimistic)

\* a variant whose increment names the counters of both actors, seen or not
IncCounterUnseen(ds) ==
  IF ds.fe.optimistic.objs = {} THEN Panic(ds)
  ELSE ChangeAndSend(ds, IncOp(Actors))

\* Doc::inc_counter: the increment goes to every counter the frontend shows
IncCounter(ds) ==
  IF ds.fe.optimistic.objs = {} THEN Panic(ds)
  ELSE ChangeAndSend(ds, IncOp(ds.fe.optimistic.objs))

\* ---------------------------------------------------------------- state
VARIABLES
  mainpc,      \* main thread: "run" (app.run, the GTK main loop), "quitting"
               \* (vgtk::quit called), "close", "join", "done"; "panicked";
               \* "aborted" when a signal handler or update panicked
  scope,       \* messages sent to the application scope, not yet handled
  created,     \* Model.doc1 and Model.doc2 are Some
  frontend,    \* Doc.frontend of doc1, doc2
  buffer,      \* Doc.buffer
  insBlock,    \* block count of Doc.insert_text_sigid
  delBlock,    \* block count of Doc.del_sig_id
  chan,        \* rx1, rx2: requests sent and not yet received
  closeSent,   \* a () is waiting in closerx
  torn,        \* the editing context was dropped: no sender of rx1/rx2 and
               \* no receiver of the scope is left
  backend,     \* backend1, backend2 of the backend thread
  loopState,   \* backend thread: "running", "returned", "panicked"
  arrival,     \* history: the docs of the waiting requests, in send order
  edits,       \* history: number of user edit events so far
  incs,        \* history: number of inc_counter calls so far
  published,   \* history: number of Patch messages sent to the scope
  lastLoop,    \* history: what the last iteration of the backend thread did
  lastUpdate   \* history: what the last Model::update of a Patch did

vars ==
  <<mainpc, scope, created, frontend, buffer, insBlock, delBlock, chan,
    closeSent, torn, backend, loopState, arrival, edits, incs, published,
    lastLoop, lastUpdate>>

uiVars == <<frontend, buffer, insBlock, delBlock, chan, arrival>>

NoPatch == Patch(NoActor, 0, EmptyDoc)

InitializedMsg == [type |-> "Initialized", doc1 |-> NoPatch, doc2 |-> NoPatch]
ExitMsg == [type |-> "Exit", doc1 |-> NoPatch, doc2 |-> NoPatch]
PatchMsg(p1, p2) == [type |-> "Patch", doc1 |-> p1, doc2 |-> p2]

\* the patch a Message::Patch carries for doc d
PatchOf(m, d) == IF d = 1 THEN m.doc1 ELSE m.doc2

\* lastLoop: doc is the channel taken, req the request (actor, seq, kind of
\* its operation), prior the number of requests of that actor its backend
\* had applied, by the backend that ran apply_local_change, fresh whether
\* neither backend held the request, replay whether handing over the whole
\* log left the other backend as handing over the one new change does
NoLoop ==
  [doc |-> 0, cause |-> "none", first |-> TRUE, inOrder |-> TRUE, ok |-> TRUE, local |-> FALSE, remote |-> FALSE,
   sent |-> FALSE, actors |-> <<NoActor, NoActor>>,
   req |-> [actor |-> NoActor, seq |-> 0, kind |-> "none"], prior |-> 0,
   by |-> 0, fresh |-> TRUE, replay |-> TRUE]
NoUpdate == [own |-> {}, rendered |-> {}, merged |-> {}, clean |-> {}, sent |-> 0]

\* main, lines 300-327: the backend thread runs with two fresh backends and
\* Initialized{sx1, sx2} is the first message of the scope
Init ==
  /\ mainpc = "run"
  /\ scope = <<InitializedMsg>>
  /\ created = FALSE
  /\ frontend = [d \in Docs |-> NewFrontend(NoActor)]
  /\ buffer = [d \in Docs |-> <<>>]
  /\ insBlock = [d \in Docs |-> 0]
  /\ delBlock = [d \in Docs |-> 0]
  /\ chan = [d \in Docs |-> <<>>]
  /\ closeSent = FALSE
  /\ torn = FALSE
  /\ backend = [d \in Docs |-> NewBackend]
  /\ loopState = "running"
  /\ arrival = <<>>
  /\ edits = 0
  /\ incs = 0
  /\ published = 0
  /\ lastLoop = NoLoop
  /\ lastUpdate = NoUpdate

RxAlive == loopState = "running"

Side(d) == DocSide(frontend[d], buffer[d], chan[d], RxAlive, insBlock[d], delBlock[d])

Repeat(x, n) == [i \in 1..n |-> x]

\* the GTK main loop dispatches; n[d] is what the handlers made of doc d.
\* A panic in a handler ends the process.
UiStep(n) ==
  IF \A d \in Docs : n[d].ok
    THEN /\ frontend' = [d \in Docs |-> n[d].fe]
         /\ buffer' = [d \in Docs |-> n[d].buf]
         /\ insBlock' = [d \in Docs |-> n[d].insBlock]
         /\ delBlock' = [d \in Docs |-> n[d].delBlock]
         /\ chan' = [d \in Docs |-> n[d].chan]
         /\ arrival' = arrival \o Repeat(1, Len(n[1].chan) - Len(chan[1]))
                               \o Repeat(2, Len(n[2].chan) - Len(chan[2]))
    ELSE UNCHANGED uiVars

UiPc(n, pc) == IF \A d \in Docs : n[d].ok THEN pc ELSE "aborted"

\* a variant that makes the initial change and does not send its request
DocNewUnsent(d, actor) ==
  LET fresh == DocSide(NewFrontend(actor), <<>>, chan[d], RxAlive, 0, 0)
  IN [fresh EXCEPT !.fe = FrontendChange(@, InitOp)]

\* Doc::new, lines 45-66: a frontend with a fresh actor id, the initial
\* change, and sx.try_send(cr).unwrap()
DocNew(d, actor) ==
  LET fresh == DocSide(NewFrontend(actor), <<>>, chan[d], RxAlive, 0, 0)
  IN ChangeAndSend(fresh, InitOp)

\* Model::update, Message::Initialized
ProcessInitialized ==
  /\ mainpc = "run"
  /\ scope # <<>> /\ Head(scope).type = "Initialized"
  /\ \E a1 \in Actors :
       \E n \in {[d \in Docs |-> DocNew(d, IF d = 1 THEN a1 ELSE Other(a1))]} :
          /\ UiStep(n)
          /\ mainpc' = UiPc(n, "run")
  /\ scope' = Tail(scope)
  /\ created' = TRUE
  /\ UNCHANGED <<closeSent, torn, backend, loopState, edits, incs, published,
                 lastLoop, lastUpdate>>

\* Model::update, Message::Patch: doc1.apply_patch(patch1), then
\* doc2.apply_patch(patch2)
ProcessPatch ==
  /\ mainpc \in {"run", "quitting"}
  /\ scope # <<>> /\ Head(scope).type = "Patch"
  /\ created
  /\ \E m \in {Head(scope)} :
     \E n1 \in {ApplyPatch(Side(1), m.doc1)} :
     \E n2 \in {IF n1.ok THEN ApplyPatch(Side(2), m.doc2) ELSE Side(2)} :
     \E n \in {<<n1, n2>>}, p \in {<<m.doc1, m.doc2>>} :
        /\ UiStep(n)
        /\ mainpc' = UiPc(n, mainpc)
        /\ lastUpdate' =
             [own |-> {d \in Docs : p[d].actor = frontend[d].actor},
              rendered |-> {d \in Docs : n[d].rendered},
              merged |-> {d \in Docs : n[d].fe.reconciled = p[d].doc},
              clean |-> {d \in Docs : n[d].fe = FrontendApplyPatch(frontend[d], p[d]).fe},
              sent |-> Len(n[1].chan) + Len(n[2].chan) - Len(chan[1]) - Len(chan[2])]
  /\ scope' = Tail(scope)
  /\ UNCHANGED <<created, closeSent, torn, backend, loopState, edits, incs,
                 published, lastLoop>>

\* the user types or pastes str at offset pos of window d
UserInsert(d, pos, str) ==
  /\ mainpc = "run" /\ created
  /\ pos \in 0..Len(buffer[d])
  /\ \E n \in {[e \in Docs |-> IF e = d THEN EmitInsert(Side(d), pos, str) ELSE Side(e)]} :
        /\ UiStep(n)
        /\ mainpc' = UiPc(n, "run")
  /\ edits' = edits + 1
  /\ UNCHANGED <<scope, created, closeSent, torn, backend, loopState, incs,
                 published, lastLoop, lastUpdate>>

\* the user deletes the characters start..end-1 of window d
UserDelete(d, start, end) ==
  /\ mainpc = "run" /\ created
  /\ 0 <= start /\ start < end /\ end <= Len(buffer[d])
  /\ end - start <= MaxRange
  /\ \E n \in {[e \in Docs |-> IF e = d THEN EmitDelete(Side(d), start, end) ELSE Side(e)]} :
        /\ UiStep(n)
        /\ mainpc' = UiPc(n, "run")
  /\ edits' = edits + 1
  /\ UNCHANGED <<scope, created, closeSent, torn, backend, loopState, incs,
                 published, lastLoop, lastUpdate>>

\* DocView::update, DocMessage::Inc: the "inc!" button of window d
ClickInc(d) ==
  /\ mainpc = "run" /\ created
  /\ \E n \in {[e \in Docs |-> IF e = d THEN IncCounter(Side(d)) ELSE Side(e)]} :
        /\ UiStep(n)
        /\ mainpc' = UiPc(n, "run")
  /\ edits' = edits + 1
  /\ incs' = incs + 1
  /\ UNCHANGED <<scope, created, closeSent, torn, backend, loopState,
                 published, lastLoop, lastUpdate>>

\* a window is destroyed: DocMessage::Exit, on_exit sends Message::Exit
CloseWindow ==
  /\ mainpc = "run"
  /\ \A i \in 1..Len(scope) : scope[i].type # "Exit"
  /\ scope' = Append(scope, ExitMsg)
  /\ UNCHANGED <<mainpc, created, closeSent, torn, backend, loopState, edits,
                 incs, published, lastLoop, lastUpdate, uiVars>>

\* Model::update, Message::Exit: vgtk::quit()
ProcessExit ==
  /\ mainpc = "run"
  /\ scope # <<>> /\ Head(scope).type = "Exit"
  /\ scope' = Tail(scope)
  /\ mainpc' = "quitting"
  /\ UNCHANGED <<created, closeSent, torn, backend, loopState, edits, incs,
                 published, lastLoop, lastUpdate, uiVars>>

\* app.run(&args) returns, line 329
RunReturns ==
  /\ mainpc = "quitting"
  /\ mainpc' = "close"
  /\ UNCHANGED <<scope, created, closeSent, torn, backend, loopState, edits,
                 incs, published, lastLoop, lastUpdate, uiVars>>

\* closesx.send(()).unwrap(), line 330
SendClose ==
  /\ mainpc = "close"
  /\ IF loopState = "running"
       THEN closeSent' = TRUE /\ mainpc' = "join"
       ELSE closeSent' = closeSent /\ mainpc' = "panicked"
  /\ UNCHANGED <<scope, created, torn, backend, loopState, edits, incs,
                 published, lastLoop, lastUpdate, uiVars>>

\* backend_thread.join().unwrap(), line 331
Join ==
  /\ mainpc = "join"
  /\ loopState # "running"
  /\ mainpc' = IF loopState = "returned" THEN "done" ELSE "panicked"
  /\ UNCHANGED <<scope, created, closeSent, torn, backend, loopState, edits,
                 incs, published, lastLoop, lastUpdate, uiVars>>

\* ------------------------------------------------------- backend thread
\* a variant that hands each doc the other backend's patch
CombinedPatchSwapped(d, local, remote) ==
  IF d = 1 THEN PatchMsg(remote, local) ELSE PatchMsg(local, remote)

\* the Message::Patch of lines 316 and 321: doc d's patch is the answer to
\* its own request, the other doc's patch the result of apply_changes
CombinedPatch(d, local, remote) ==
  IF d = 1 THEN PatchMsg(local, remote) ELSE PatchMsg(remote, local)

\* a variant whose rx2 branch does not hand backend2's log to backend1
HandleRequestOneWay(bs, d, req, scopeOpen) ==
  LET o == Other(d)
      l == ApplyLocalChange(bs[d], req)
      r == ApplyChanges(bs[o], IF d = 1 THEN GetChanges(l.backend) ELSE <<>>)
      both == [b \in Docs |-> IF b = d THEN l.backend ELSE r.backend]
  IN IF ~l.ok THEN [ok |-> FALSE, backend |-> bs, out |-> <<>>, by |-> d]
     ELSE IF ~scopeOpen THEN [ok |-> FALSE, backend |-> both, out |-> <<>>, by |-> d]
     ELSE [ok |-> TRUE, backend |-> both, by |-> d,
           out |-> <<CombinedPatch(d, l.patch, r.patch)>>]

\* a variant whose branches have the backends the wrong way round: the
\* request goes to the other backend, whose log is handed to this one
HandleRequestCrossed(bs, d, req, scopeOpen) ==
  LET o == Other(d)
      l == ApplyLocalChange(bs[o], req)
      r == ApplyChanges(bs[d], GetChanges(l.backend))
      both == [b \in Docs |-> IF b = o THEN l.backend ELSE r.backend]
  IN IF ~l.ok THEN [ok |-> FALSE, backend |-> bs, out |-> <<>>, by |-> o]
     ELSE IF ~scopeOpen THEN [ok |-> FALSE, backend |-> both, out |-> <<>>, by |-> o]
     ELSE [ok |-> TRUE, backend |-> both, by |-> o,
           out |-> <<CombinedPatch(d, l.patch, r.patch)>>]

\* one branch recv(rx_d) of the select!, lines 313-322, on the backends bs;
\* scopeOpen tells whether scope.try_send succeeds.  Each unwrap() that
\* meets an Err ends the thread where it stands.  by is the backend that
\* ran apply_local_change.
HandleRequest(bs, d, req, scopeOpen) ==
  LET o == Other(d)
      l == ApplyLocalChange(bs[d], req)
      r == ApplyChanges(bs[o], GetChanges(l.backend))
      both == [b \in Docs |-> IF b = d THEN l.backend ELSE r.backend]
      onlyLocal == [bs EXCEPT ![d] = l.backend]
  IN IF ~l.ok THEN [ok |-> FALSE, backend |-> bs, out |-> <<>>, by |-> d]
     ELSE IF ~r.ok THEN [ok |-> FALSE, backend |-> onlyLocal, out |-> <<>>, by |-> d]
     ELSE IF ~scopeOpen THEN [ok |-> FALSE, backend |-> both, out |-> <<>>, by |-> d]
     ELSE [ok |-> TRUE, backend |-> both, by |-> d,
           out |-> <<CombinedPatch(d, l.patch, r.patch)>>]

\* a variant that takes the newest message
RecvNewest(q) == [msg |-> q[Len(q)], rest |-> SubSeq(q, 1, Len(q) - 1)]

\* recv(rx) -> msg: the oldest message of the channel
Recv(q) == [msg |-> Head(q), rest |-> Tail(q)]

ProcessAlive == mainpc \notin {"done", "panicked", "aborted"}

RemoveFirst(s, x) ==
  LET i == CHOOSE j \in 1..Len(s) : s[j] = x /\ \A k \in 1..(j - 1) : s[k] # x
  IN SubSeq(s, 1, i - 1) \o SubSeq(s, i + 1, Len(s))

\* select! takes recv(rx_d): any channel that holds a request may be taken
LoopRequest(d) ==
  /\ ProcessAlive /\ loopState = "running"
  /\ chan[d] # <<>>
  /\ \E got \in {Recv(chan[d])} :
     \E req \in {got.msg} :
     \E h \in {HandleRequest(backend, d, req, ~torn)} :
        /\ backend' = h.backend
        /\ scope' = scope \o h.out
        /\ published' = published + Len(h.out)
        /\ loopState' = IF h.ok THEN "running" ELSE "panicked"
        /\ lastLoop' =
             [doc |-> d, cause |-> "request", first |-> Head(arrival) = d,
              inOrder |-> req.seq = backend[d].clock[req.actor] + 1, ok |-> h.ok,
              local |-> h.backend[d] # backend[d],
              remote |-> req \in {h.backend[Other(d)].log[i] :
                                    i \in 1..Len(h.backend[Other(d)].log)},
              sent |-> h.out # <<>>,
              actors |-> IF h.out = <<>> THEN <<NoActor, NoActor>>
                         ELSE <<h.out[1].doc1.actor, h.out[1].doc2.actor>>,
              req |-> [actor |-> req.actor, seq |-> req.seq, kind |-> req.op.kind],
              prior |-> backend[d].clock[req.actor],
              by |-> h.by,
              fresh |-> \A b \in Docs : req.seq > backend[b].clock[req.actor],
              replay |-> h.backend[Other(h.by)] =
                           ApplyChanges(backend[Other(h.by)], <<req>>).backend]
        /\ chan' = [chan EXCEPT ![d] = got.rest]
  /\ arrival' = RemoveFirst(arrival, d)
  /\ UNCHANGED <<mainpc, created, frontend, buffer, insBlock, delBlock,
                 closeSent, torn, edits, incs, lastUpdate>>

\* a variant that takes the signal and goes on with the loop
LoopCloseContinues ==
  /\ ProcessAlive /\ loopState = "running"
  /\ closeSent
  /\ closeSent' = FALSE
  /\ UNCHANGED <<mainpc, scope, created, torn, backend, loopState, edits,
                 incs, published, lastLoop, lastUpdate, uiVars>>

\* select! takes recv(closerx): return, line 323
LoopClose ==
  /\ ProcessAlive /\ loopState = "running"
  /\ closeSent
  /\ closeSent' = FALSE
  /\ loopState' = "returned"
  /\ UNCHANGED <<mainpc, scope, created, torn, backend, edits, incs,
                 published, lastLoop, lastUpdate, uiVars>>

\* select! takes recv(rx_d) of an empty channel without senders: msg is Err
\* and msg.unwrap() panics, lines 314 and 319
LoopDisconnected(d) ==
  /\ ProcessAlive /\ loopState = "running"
  /\ torn /\ chan[d] = <<>>
  /\ loopState' = "panicked"
  /\ lastLoop' = [NoLoop EXCEPT !.doc = d, !.cause = "disconnected", !.ok = FALSE]
  /\ UNCHANGED <<mainpc, scope, created, closeSent, torn, backend, edits,
                 incs, published, lastUpdate, uiVars>>

\* the editing context (Model, its docs and the scope's receiver) is dropped
\* after the main loop has ended
Teardown ==
  /\ mainpc \in {"close", "join"}
  /\ ~torn
  /\ torn' = TRUE
  /\ UNCHANGED <<mainpc, scope, created, closeSent, backend, loopState,
                 edits, incs, published, lastLoop, lastUpdate, uiVars>>

\* ------------------------------------------------------- specifications
UserNext ==
  \/ \E d \in Docs : \E pos \in 0..Len(buffer[d]), str \in InsertStrs :
       edits < MaxEdits /\ UserInsert(d, pos, str)
  \/ \E d \in Docs : \E start \in 0..Len(buffer[d]), end \in 0..Len(buffer[d]) :
       edits < MaxEdits /\ UserDelete(d, start, end)
  \/ \E d \in Docs :
       edits < MaxEdits /\ ClickInc(d)

UiNext == ProcessInitialized \/ ProcessPatch \/ ProcessExit \/ CloseWindow

MainNext == RunReturns \/ SendClose \/ Join

LoopNext == (\E d \in Docs : LoopRequest(d)) \/ LoopClose

Next == UserNext \/ UiNext \/ MainNext \/ LoopNext

\* the program with its editing context alive until the process ends
Spec == Init /\ [][Next]_vars

FaultNext == Next \/ Teardown \/ (\E d \in Docs : LoopDisconnected(d))

\* the program when the editing context may be dropped while the backend
\* thread still runs
FaultSpec == Init /\ [][FaultNext]_vars

\* the threads are scheduled fairly: the backend thread takes some ready
\* branch of its select!, the main thread goes on after app.run
FairUserNext ==
  \/ \E d \in Docs : \E pos \in 0..Len(buffer[d]), str \in InsertStrs :
       edits < MaxFairEdits /\ UserInsert(d, pos, str)
  \/ \E d \in Docs :
       edits < MaxFairEdits /\ ClickInc(d)

FairNext == FairUserNext \/ UiNext \/ MainNext \/ LoopNext

FairSpec == Init /\ [][FairNext]_vars /\ WF_vars(LoopNext) /\ WF_vars(MainNext)

\* The end-to-end scenario of the documentation: window 1 types "a", "b",
\* "c" at the offsets 0, 1, 2 and window 2 clicks "inc!" twice, in any
\* interleaving with each other, the backend thread and the patches.
ScriptText == <<"a", "b", "c">>
ScriptIncs == <<"inc", "inc">>

Typed == frontend[1].seq - 1
Clicked == frontend[2].seq - 1

ScriptInsert ==
  /\ created /\ Typed < Len(ScriptText)
  /\ UserInsert(1, Typed, <<ScriptText[Typed + 1]>>)

ScriptInc ==
  /\ created /\ Clicked < Len(ScriptIncs)
  /\ ClickInc(2)

ScenarioNext ==
  \/ ScriptInsert
  \/ ScriptInc
  \/ ProcessInitialized
  \/ ProcessPatch
  \/ \E d \in Docs : LoopRequest(d)

ScenarioSpec == Init /\ [][ScenarioNext]_vars

\* Window 1 types single characters at the end of its buffer and deletes
\* ranges of it; window 2 is left alone.
TypeChar ==
  /\ created /\ edits < MaxTypingEdits
  /\ Len(buffer[1]) < Len(ScriptText)
  /\ UserInsert(1, Len(buffer[1]), <<ScriptText[Len(buffer[1]) + 1]>>)

DeleteChars ==
  /\ created /\ edits < MaxTypingEdits
  /\ \E start \in 0..Len(buffer[1]), end \in 0..Len(buffer[1]) : UserDelete(1, start, end)

TypingNext ==
  \/ TypeChar
  \/ DeleteChars
  \/ ProcessInitialized
  \/ ProcessPatch
  \/ \E d \in Docs : LoopRequest(d)

TypingSpec == Init /\ [][TypingNext]_vars

\* -------------------------------------------------------------- claims
Drained == \A d \in Docs : chan[d] = <<>>

NoPatchWaiting == \A i \in 1..Len(scope) : scope[i].type # "Patch"

\* every request sent so far was applied and its patches were handled
Quiescent == created /\ Drained /\ NoPatchWaiting

ActorOf(d) == frontend[d].actor

\* the requests of doc d's actor that backend b has applied
AppliedOf(b, d) == backend[b].clock[ActorOf(d)]

\* C1: once both channels are drained, backend1 and backend2 give the same
\* counter value and the same text
C1_Convergence ==
  Drained =>
    /\ CounterOf(backend[1].doc) = CounterOf(backend[2].doc)
    /\ TextOf(backend[1].doc) = TextOf(backend[2].doc)

\* both windows have edited, one of them the text, and all is drained
C1_Witness ==
  /\ Drained
  /\ frontend[1].seq >= 2 /\ frontend[2].seq >= 2
  /\ TextOf(backend[1].doc) # <<>>

\* C2: when everything is drained and every patch handled, the counter is
\* the number of inc_counter calls, on both backends and in both windows
C2_IncrementCorrectness ==
  Quiescent =>
    /\ \A b \in Docs : CounterOf(backend[b].doc) = incs
    /\ \A d \in Docs : CounterValue(frontend[d]) = incs

\* C3: when the scenario is through and drained, both backends hold the
\* text "abc" and the counter 2
ScenarioDone == Typed = Len(ScriptText) /\ Clicked = Len(ScriptIncs) /\ Drained

C3_Scenario ==
  ScenarioDone =>
    \A b \in Docs : /\ TextOf(backend[b].doc) = ScriptText
                    /\ CounterOf(backend[b].doc) = Len(ScriptIncs)

\* C4: a patch of the doc's own actor is merged into the frontend without
\* set_text and without a request; a doc is re-rendered only by the patch
\* of the other doc's request; of the two patches of a Patch message the
\* originator's carries its actor id and the peer's does not carry the peer's
C4_EchoSuppression ==
  /\ lastUpdate.own \subseteq lastUpdate.merged
  /\ lastUpdate.own \cap lastUpdate.rendered = {}
  /\ lastUpdate.sent = 0
  /\ \A d \in lastUpdate.rendered : Other(d) \in lastUpdate.own
  /\ lastLoop.sent =>
       /\ lastLoop.actors[lastLoop.doc] = ActorOf(lastLoop.doc)
       /\ lastLoop.actors[Other(lastLoop.doc)] # ActorOf(Other(lastLoop.doc))

\* a Patch message was handled whose originator kept its buffer, with text
\* in it, and whose peer was re-rendered
C4_Witness ==
  \E d \in Docs :
    /\ lastUpdate.own = {d}
    /\ lastUpdate.rendered = {Other(d)}
    /\ d \in lastUpdate.merged
    /\ buffer[d] # <<>>

\* C5: a re-render neither sends a request nor changes the frontend beyond
\* the merge of the patch, and after every apply_patch both handlers of
\* both docs are unblocked
C5_FeedbackGuard ==
  /\ \A d \in Docs : insBlock[d] = 0 /\ delBlock[d] = 0
  /\ lastUpdate.rendered # {} => lastUpdate.sent = 0
  /\ lastUpdate.rendered \subseteq lastUpdate.clean

\* a re-render replaced a text by another one, and an edit of the
\* re-rendered window made after it went out as a request
C5_Witness ==
  \E d \in Docs :
    /\ d \in lastUpdate.rendered
    /\ buffer[d] # <<>>
    /\ buffer[Other(d)] # <<>>
    /\ chan[d] # <<>>

\* C6 as stated: the request the backend thread takes is the one sent
\* first among all waiting requests of both channels
C6_GlobalArrivalOrder == lastLoop.first

\* C6 amended: the requests of one channel are applied in the order they
\* were sent: the request taken is the next of its actor, and the waiting
\* ones follow it in order
C6_ChannelOrder ==
  /\ lastLoop.inOrder
  /\ \A d \in Docs : \A i \in 1..Len(chan[d]) :
       chan[d][i].seq = AppliedOf(d, d) + i

\* two requests of one window were applied while one of the other waited
C6_Witness ==
  \E d \in Docs :
    /\ created
    /\ AppliedOf(d, d) >= 2
    /\ chan[Other(d)] # <<>>

\* C7: when main has sent the shutdown signal and joined, the thread has
\* returned and every request it applied has had its patch handled
C7_ShutdownSafety ==
  mainpc = "done" =>
    /\ loopState = "returned"
    /\ published = Len(backend[1].log)
    /\ NoPatchWaiting

\* C8: after the shutdown signal the thread returns and the join ends, and
\* a returned thread has finished every request it began: both backends
\* hold the same changes and one Patch message went out for each
C8_ShutdownLiveness ==
  /\ closeSent ~> (loopState = "returned")
  /\ closeSent ~> (mainpc = "done")
  /\ [](loopState = "returned" =>
          /\ backend[1].log = backend[2].log
          /\ published = Len(backend[1].log))

\* main is through and the thread applied a user's request on its way
C8_Witness ==
  /\ mainpc = "done"
  /\ loopState = "returned"
  /\ published > 2

\* C9: an iteration changes both backends and publishes the patches, or
\* it changes nothing
C9_Atomicity ==
  lastLoop.cause = "request" =>
    \/ lastLoop.local /\ lastLoop.remote /\ lastLoop.sent
    \/ ~lastLoop.local /\ ~lastLoop.remote /\ ~lastLoop.sent

\* C10: the thread does not panic when it finds a request channel
\* disconnected
C10_GracefulDisconnect ==
  lastLoop.cause = "disconnected" => loopState # "panicked"

\* C11: when the Patch message cannot be delivered because the editing
\* context is gone, the patch is dropped and the thread goes on (or returns
\* on shutdown): an iteration that applied its request and published
\* nothing does not leave the thread panicked
C11_DeliveryFailureTolerated ==
  (lastLoop.cause = "request" /\ lastLoop.local /\ ~lastLoop.sent) =>
    loopState # "panicked"

\* C12: the counter a backend holds and the counter a window shows
\* (counter_value) never get smaller from one state to the next
C12_CounterMonotone ==
  [][\A d \in Docs :
       /\ CounterOf(backend[d].doc)' >= CounterOf(backend[d].doc)
       /\ CounterValue(frontend[d])' >= CounterValue(frontend[d])]_vars

LogIds(b) == [i \in 1..Len(backend[b].log) |->
                <<backend[b].log[i].actor, backend[b].log[i].seq>>]

NoDuplicate(s) == \A i, j \in 1..Len(s) : s[i] = s[j] => i = j

\* C13: a request is made by one replica and sent once, on that replica's
\* channel; it is either still waiting or was applied once, so with the
\* channels drained every request sent was applied exactly once; the
\* backend that applies it with apply_local_change is the one of its
\* replica, neither backend held it before, and the other backend gets it
\* with the log
C13_SingleConsumption ==
  /\ \A d \in Docs : \A i \in 1..Len(chan[d]) : chan[d][i].actor = ActorOf(d)
  /\ created => \A d \in Docs : AppliedOf(d, d) + Len(chan[d]) = frontend[d].seq
  /\ \A b \in Docs : NoDuplicate(LogIds(b))
  /\ lastLoop.cause = "request" =>
       /\ lastLoop.by = lastLoop.doc
       /\ lastLoop.req.actor = ActorOf(lastLoop.doc)
       /\ lastLoop.fresh
       /\ lastLoop.remote

\* both replicas have sent edits after their initial request, everything
\* sent was taken, and each backend holds the other replica's requests too
C13_Witness ==
  /\ created /\ Drained
  /\ lastLoop.cause = "request"
  /\ \A d \in Docs : frontend[d].seq >= 2 /\ AppliedOf(Other(d), d) = frontend[d].seq

\* C14: the initial request of a replica is the first of its requests that
\* is sent, the first its backend takes, and in every backend's log the
\* initial change of an actor stands before every other change of that actor
C14_InitFirst ==
  /\ \A d \in Docs :
       (chan[d] # <<>> /\ AppliedOf(d, d) = 0) => Head(chan[d]).op.kind = "init"
  /\ (lastLoop.cause = "request" /\ lastLoop.prior = 0) => lastLoop.req.kind = "init"
  /\ \A b \in Docs : \A i \in 1..Len(backend[b].log) :
       backend[b].log[i].op.kind # "init" =>
         \E j \in 1..(i - 1) : /\ backend[b].log[j].actor = backend[b].log[i].actor
                               /\ backend[b].log[j].op.kind = "init"

\* the backend thread has just applied an edit of one replica, and both
\* replicas have had edits applied after their initial request
C14_Witness ==
  /\ lastLoop.cause = "request" /\ lastLoop.ok
  /\ lastLoop.req.kind \in {"ins", "del", "inc"}
  /\ \A d \in Docs : AppliedOf(d, d) >= 2

LogSet(b) == {backend[b].log[i] : i \in 1..Len(backend[b].log)}

\* C15: a step that changes a backend takes exactly one request, from the
\* head of one channel, applies it to that channel's backend, leaves the
\* other backend with the same changes, and appends exactly one Patch
\* message in which each doc's patch shows its own backend, the
\* originator's carrying the request's actor and seq and the peer's no
\* actor; nothing else publishes; the scope is handled first in first out
\* and one update of a Patch message merges both patches, each into its doc
C15_SerializedCombined ==
  [][/\ backend' # backend =>
          /\ published' = published + 1
          /\ \E d \in Docs :
               /\ chan[d] # <<>>
               /\ chan' = [chan EXCEPT ![d] = Tail(@)]
               /\ backend'[d].log = Append(backend[d].log, Head(chan[d]))
               /\ LogSet(Other(d))' = LogSet(d)'
               /\ Len(scope') = Len(scope) + 1
               /\ scope'[Len(scope')].type = "Patch"
               /\ PatchOf(scope'[Len(scope')], d) =
                    Patch(Head(chan[d]).actor, Head(chan[d]).seq, backend'[d].doc)
               /\ PatchOf(scope'[Len(scope')], Other(d)) =
                    Patch(NoActor, 0, backend'[Other(d)].doc)
     /\ published' # published => backend' # backend
     /\ Len(scope') < Len(scope) => scope' = Tail(scope)
     /\ Len(scope') > Len(scope) => SubSeq(scope', 1, Len(scope)) = scope
     /\ (scope # <<>> /\ Head(scope).type = "Patch" /\ scope' = Tail(scope)) =>
          \A d \in Docs : frontend'[d].reconciled = PatchOf(Head(scope), d).doc
    ]_vars

\* requests of both replicas were applied beyond the initial ones, their
\* Patch messages published and handled
C15_Witness ==
  /\ published >= 4
  /\ NoPatchWaiting
  /\ \A d \in Docs : AppliedOf(d, d) >= 2
  /\ \E d \in Docs : lastUpdate.own = {d} /\ lastUpdate.merged = Docs

\* C16: when a replica has nothing in flight, every request sent was applied
\* and every published patch handled, its text buffer holds the text of its
\* frontend, which is the text of the backends
C16_ProjectionConsistency ==
  \A d \in Docs :
    (Quiescent /\ frontend[d].inflight = <<>>) =>
      /\ buffer[d] = TextOf(frontend[d].optimistic)
      /\ buffer[d] = TextOf(backend[d].doc)

\* C17: while the editing context is alive, apply_local_change never fails:
\* the request at the head of a channel is the next of its actor and refers
\* only to what its backend holds, every request taken was applied, and the
\* backend thread has not panicked
C17_NoRejection ==
  /\ \A d \in Docs :
       chan[d] # <<>> => ApplyLocalChange(backend[d], Head(chan[d])).ok
  /\ lastLoop.cause = "request" => lastLoop.ok /\ lastLoop.local
  /\ loopState # "panicked"

\* an insert, delete or increment of one replica was applied after the
\* other replica had edited too
C17_Witness ==
  /\ lastLoop.cause = "request" /\ lastLoop.ok
  /\ lastLoop.req.kind \in {"ins", "del", "inc"}
  /\ frontend[Other(lastLoop.doc)].seq >= 2
  /\ Drained

AllElems(doc) == UNION {{doc.text[a][i] : i \in 1..Len(doc.text[a])} : a \in Actors}

\* C18: every element of the replicated text, in both backends and in both
\* frontends, is a single character, and where a window's buffer holds the
\* text its frontend shows, the frontend's sequence has as many elements as
\* the buffer has characters
C18_SingleCharElements ==
  /\ \A d \in Docs :
       \A e \in AllElems(backend[d].doc) \cup AllElems(frontend[d].optimistic) :
          Len(e.val) = 1
  /\ \A d \in Docs :
       buffer[d] = TextOf(frontend[d].optimistic) =>
         Len(TextElems(frontend[d].optimistic)) = Len(buffer[d])

\* C19: a delete event for the range start..end-1 of a window does not fail,
\* and the text its frontend shows afterwards is the text it showed before
\* without the characters at the positions start..end-1
C19_DeleteRange ==
  [][\A d \in Docs : \A start, end \in 0..Len(buffer[d]) :
       UserDelete(d, start, end) =>
         /\ mainpc' # "aborted"
         /\ TextOf(frontend[d].optimistic)' =
              RemoveRange(TextOf(frontend[d].optimistic), start, end)]_vars

\* C20: between any two iterations of the backend thread, not only when the
\* channels are drained, backend1 and backend2 hold the same changes, none
\* of them twice, and make the same document of them; handing over the whole
\* log left the receiving backend as handing over the one new change does
C20_LockStep ==
  /\ LogSet(1) = LogSet(2)
  /\ \A b \in Docs : Cardinality(LogSet(b)) = Len(backend[b].log)
  /\ backend[1].clock = backend[2].clock
  /\ backend[1].doc = backend[2].doc
  /\ lastLoop.cause = "request" => lastLoop.replay

\* requests of both replicas have been applied, the last one onto a log of
\* three or more changes, while another request still waits
C20_Witness ==
  /\ lastLoop.cause = "request" /\ lastLoop.ok
  /\ ~Drained
  /\ Len(backend[1].log) >= 3
  /\ \A d \in Docs : AppliedOf(d, d) >= 1

====
